---- MODULE Spec2Model ----
(***************************************************************************)
(* A model of remote-runner-server (src/src/main.rs): the job registry,    *)
(* the run handler with its background task, the broadcast hub of          *)
(* capacity 1, the wait-run handler, and the offer-files, send-files and   *)
(* get-file handlers over a small filesystem.                              *)
(*                                                                          *)
(* Strings are sequences of one-character strings, so that contains,       *)
(* starts_with and path joining are computed as the code computes them.    *)
(***************************************************************************)
EXTENDS Naturals, Integers, Sequences, FiniteSets, TLC

\* ----------------------------------------------------------------- bounds
\* run and wait-run requests the clients make, all together
MaxRequests == 3
MaxFileLen == 1

\* broadcast::channel(1)
HubCapacity == 1

\* run requests are numbered in the order they arrive, and the fresh uuid
\* of request j is j; wait-run requests likewise
Jobs == 1..MaxRequests
Waiters == 1..MaxRequests
\* an id that run never issued
UnknownId == MaxRequests + 1
Ids == Jobs \cup {UnknownId}

\* ---------------------------------------------------------------- strings
Contains(s, c) == \E i \in 1..Len(s) : s[i] = c

StartsWith(s, c) == Len(s) > 0 /\ s[1] = c

EndsWith(s, c) == Len(s) > 0 /\ s[Len(s)] = c

\* the workdir strings a run request carries
WdAbs == <<"/", "w">>
WdAbsTilde == <<"/", "~">>
WdRel == <<"w">>
WdHome == <<"~", "/", "w">>
WdEmpty == <<>>
Workdirs == {WdAbs, WdAbsTilde, WdRel, WdHome, WdEmpty}

\* ------------------------------------------------------------- filesystem
\* A path is looked up by its components; the filesystem maps the component
\* sequences of a small universe to an entry.
RECURSIVE SplitAcc(_, _, _)
SplitAcc(s, cur, acc) ==
    IF s = <<>>
    THEN IF cur = <<>> THEN acc ELSE Append(acc, cur)
    ELSE IF Head(s) = "/"
         THEN SplitAcc(Tail(s), <<>>, IF cur = <<>> THEN acc ELSE Append(acc, cur))
         ELSE SplitAcc(Tail(s), Append(cur, Head(s)), acc)

Components(s) == SplitAcc(s, <<>>, <<>>)

\* PathBuf::join: an absolute argument replaces the base, otherwise it is
\* appended after a separator (so joining "" leaves a trailing separator)
PathJoin(base, name) ==
    IF StartsWith(name, "/") THEN name
    ELSE IF base = <<>> THEN name
    ELSE IF EndsWith(base, "/") THEN base \o name
    ELSE base \o <<"/">> \o name

NameF == <<"f">>
NameG == <<"g">>
NameSelf == <<>>
Filenames == {NameF, NameG, NameSelf}

KeyRoot == <<>>
KeyW == <<WdRel>>
KeyWF == <<WdRel, NameF>>
KeyWG == <<WdRel, NameG>>
FsKeys == {KeyRoot, KeyW, KeyWF, KeyWG}

Bytes == {0, 1}
Contents == UNION {[1..n -> Bytes] : n \in 0..MaxFileLen}

NoEntry == [kind |-> "none", bytes |-> <<>>]
DirEntry == [kind |-> "dir", bytes |-> <<>>]
FileEntry(b) == [kind |-> "file", bytes |-> b]
Entries == {NoEntry, DirEntry} \cup {FileEntry(b) : b \in Contents}

EntryAt(f, key) == IF key \in DOMAIN f THEN f[key] ELSE NoEntry

Prefixes(key) == {SubSeq(key, 1, n) : n \in 0..Len(key)}

\* std::fs::create_dir_all: fails when a component is a regular file (or
\* lies outside the modelled universe), otherwise every component becomes a
\* directory
CreateDirAllOk(f, key) ==
    /\ key \in DOMAIN f
    /\ \A p \in Prefixes(key) : EntryAt(f, p).kind # "file"

CreateDirAll(f, key) ==
    IF CreateDirAllOk(f, key)
    THEN [k \in DOMAIN f |-> IF k \in Prefixes(key) THEN DirEntry ELSE f[k]]
    ELSE f

\* Path::exists: stat succeeds; a trailing separator on a regular file fails
PathExists(f, path) ==
    LET e == EntryAt(f, Components(path))
    IN \/ e.kind = "dir"
       \/ e.kind = "file" /\ ~EndsWith(path, "/")

\* std::fs::read: the bytes of a regular file, an error otherwise
ReadOk(f, path) ==
    /\ EntryAt(f, Components(path)).kind = "file"
    /\ ~EndsWith(path, "/")

ReadBytes(f, path) == EntryAt(f, Components(path)).bytes

EmptyFs == [k \in FsKeys |-> IF k = KeyRoot THEN DirEntry ELSE NoEntry]

\* ------------------------------------------------------------------ state
VARIABLES
    runs,        \* AppState.runs: the registry, a map from issued ids to a status
    tail,        \* the hub's send position (messages accepted so far)
    sent,        \* calls of send each job's background task has made
    fs,          \* the filesystem
    execBits,    \* the files whose mode is 0o777
    runPc,       \* position of each run request's handler
    reqWorkdir,  \* the workdir each run request carried
    taskPc,      \* position of each job's background task
    exit,        \* how each job's child process ended
    res,         \* what spawn_blocking(..).await gave each background task
    wPc,         \* position of each wait-run request's handler
    wId,         \* the id each wait-run request asks for
    wNext,       \* each waiter's receiver position in the hub
    wSub,        \* the hub's send position when each waiter subscribed
    wReads,      \* registry reads each wait-run request has made
    wRes,        \* each wait-run request's response
    sync         \* the last file-sync request and its response

vars == <<runs, tail, sent, fs, execBits, runPc, reqWorkdir, taskPc, exit, res,
          wPc, wId, wNext, wSub, wReads, wRes, sync>>

jobVars == <<runs, tail, sent, runPc, reqWorkdir, taskPc, exit, res,
             wPc, wId, wNext, wSub, wReads, wRes>>

waitVars == <<wPc, wId, wNext, wSub, wReads, wRes>>

NoSync == [op |-> "none"]

\* ---------------------------------------------------------------- registry
Statuses == {"Running", "Success", "Fail"}
Terminal == {"Success", "Fail"}

\* a faulty variant of Lookup: a missing id reads as Running (unwrap_or)
Lookup_MissingIsRunning(m, id) == IF id \in DOMAIN m THEN m[id] ELSE "Running"

\* HashMap::get(&id).copied(): "none" stands for None
Lookup(m, id) == IF id \in DOMAIN m THEN m[id] ELSE "none"

\* a faulty variant of Insert: the write lands on every entry of the map
Insert_Clobbers(m, id, st) == [k \in DOMAIN m \cup {id} |-> st]

\* HashMap::insert(id, status)
Insert(m, id, st) == [k \in DOMAIN m \cup {id} |-> IF k = id THEN st ELSE m[k]]

\* -------------------------------------------------------------------- hub
\* a faulty variant of Subscribe: the receiver starts one message late
Subscribe_SkipsNext(t) == t + 1

\* Sender::subscribe: the new receiver starts at the current send position
Subscribe(t) == t

\* live receivers: the wait-run handlers between subscribe and return
Receivers == {w \in Waiters : wPc[w] \in {"read", "recv"}}

\* Sender::send: an error, and no message, when there is no receiver
SendTail(t, rx) == IF rx = 0 THEN t ELSE t + 1

\* a faulty variant of RecvNext: the receiver's position is left where it was
RecvNext_KeepsPosition(next, t) == next

\* Receiver::recv completes when a message was sent after the receiver's
\* position; one that fell behind the buffer gets a lag notice and is moved
\* to the oldest message kept
RecvReady(next, t) == next < t

RecvNext(next, t) ==
    IF t - next > HubCapacity THEN t - HubCapacity ELSE next + 1

\* -------------------------------------------------------------------- run
\* a faulty variant of InvalidWorkdir: the '~' test is missing
InvalidWorkdir_NoTilde(w) == ~StartsWith(w, "/")

\* request.workdir.contains('~') || !request.workdir.starts_with('/')
InvalidWorkdir(w) == Contains(w, "~") \/ ~StartsWith(w, "/")

ChildOutcomes == {"exit0", "nonzero", "signal", "spawnfail"}

\* the value of the spawn_blocking closure: Ok(()) after exit code 0, an
\* anyhow error after a spawn failure or any other exit status
ClosureValue(o) == IF o = "exit0" THEN "Ok" ELSE "Err"

\* spawn_blocking(..).await: Ok(closure value) unless the closure panicked,
\* and the closure has no panicking path
JoinResult(o) == [join |-> "Ok", inner |-> ClosureValue(o)]

NoRes == [join |-> "none", inner |-> "none"]

\* a faulty variant of MatchRes: the arms are swapped
MatchRes_Swapped(r) == IF r.join = "Ok" THEN "Fail" ELSE "Success"

\* match res { Ok(_) => Success, Err(e) => Fail }
MatchRes(r) == IF r.join = "Ok" THEN "Success" ELSE "Fail"

Init ==
    /\ runs = <<>>
    /\ tail = 0
    /\ sent = [j \in Jobs |-> 0]
    /\ execBits = {}
    /\ wSub = [w \in Waiters |-> 0]
    /\ fs = EmptyFs
    /\ runPc = [j \in Jobs |-> "idle"]
    /\ reqWorkdir = [j \in Jobs |-> <<>>]
    /\ taskPc = [j \in Jobs |-> "none"]
    /\ exit = [j \in Jobs |-> "none"]
    /\ res = [j \in Jobs |-> NoRes]
    /\ wPc = [w \in Waiters |-> "idle"]
    /\ wId = [w \in Waiters |-> UnknownId]
    /\ wNext = [w \in Waiters |-> 0]
    /\ wReads = [w \in Waiters |-> 0]
    /\ wRes = [w \in Waiters |-> "none"]
    /\ sync = NoSync

\* requests that have arrived
RunsStarted == Cardinality({j \in Jobs : runPc[j] # "idle"})

WaitsStarted == Cardinality({w \in Waiters : wPc[w] # "idle"})

\* lines 43-51: the request arrives with workdir w and gets the fresh id j;
\* an invalid workdir is answered with an error, a valid one is created
\* best-effort (the result of create_dir_all is dropped)
RunStart(j, w) ==
    /\ runPc[j] = "idle"
    /\ j = RunsStarted + 1
    /\ RunsStarted + WaitsStarted < MaxRequests
    /\ reqWorkdir' = [reqWorkdir EXCEPT ![j] = w]
    /\ IF InvalidWorkdir(w)
       THEN /\ runPc' = [runPc EXCEPT ![j] = "rejected"]
            /\ fs' = fs
       ELSE /\ runPc' = [runPc EXCEPT ![j] = "insert"]
            /\ \E made \in BOOLEAN :
                 fs' = IF made THEN CreateDirAll(fs, Components(w)) ELSE fs
    /\ UNCHANGED <<runs, tail, sent, execBits, taskPc, exit, res, waitVars, sync>>

\* a faulty variant of RunInsert: the task is spawned and the id is left for the task
\* to register
RunInsert_SpawnOnly(j) ==
    /\ runPc[j] = "insert"
    /\ taskPc' = [taskPc EXCEPT ![j] = "blocking"]
    /\ runPc' = [runPc EXCEPT ![j] = "return"]
    /\ UNCHANGED <<runs, tail, sent, fs, execBits, reqWorkdir, exit, res, waitVars, sync>>

\* a faulty variant of RunInsert: the handler goes on only when no child
\* process is running (the child is awaited by the handlers)
RunInsert_AwaitsChildren(j) ==
    /\ runPc[j] = "insert"
    /\ \A k \in Jobs : taskPc[k] # "blocking"
    /\ runs' = Insert(runs, j, "Running")
    /\ taskPc' = [taskPc EXCEPT ![j] = "blocking"]
    /\ runPc' = [runPc EXCEPT ![j] = "return"]
    /\ UNCHANGED <<tail, sent, fs, execBits, reqWorkdir, exit, res, waitVars, sync>>

\* lines 53-57: the id is registered as Running and the background task is
\* spawned
RunInsert(j) ==
    /\ runPc[j] = "insert"
    /\ runs' = Insert(runs, j, "Running")
    /\ taskPc' = [taskPc EXCEPT ![j] = "blocking"]
    /\ runPc' = [runPc EXCEPT ![j] = "return"]
    /\ UNCHANGED <<tail, sent, fs, execBits, reqWorkdir, exit, res, waitVars, sync>>

\* line 98: Ok(uuid) is returned to the caller
RunReturn(j) ==
    /\ runPc[j] = "return"
    /\ runPc' = [runPc EXCEPT ![j] = "done"]
    /\ UNCHANGED <<runs, tail, sent, fs, execBits, reqWorkdir, taskPc, exit, res,
                   waitVars, sync>>

\* what the run request answered
RunResponse(j) ==
    CASE runPc[j] = "done" -> "Ok"
      [] runPc[j] = "rejected" -> "Err"
      [] OTHER -> "none"

\* a faulty variant of TaskWrite: the task goes on to send without writing
\* the status
TaskWrite_NoWrite(j, o) ==
    /\ taskPc[j] = "blocking"
    /\ EntryAt(fs, Components(reqWorkdir[j])).kind # "dir" => o = "spawnfail"
    /\ exit' = [exit EXCEPT ![j] = o]
    /\ res' = [res EXCEPT ![j] = JoinResult(o)]
    /\ taskPc' = [taskPc EXCEPT ![j] = "send"]
    /\ UNCHANGED <<runs, tail, sent, fs, execBits, runPc, reqWorkdir, waitVars, sync>>

\* lines 62-94: the blocking closure spawns the child in the workdir, waits
\* for it and ends (a workdir that is no directory makes the spawn fail);
\* the task then takes the write lock and writes the terminal status.  The
\* closure's end changes nothing another task reads, so it is one step with
\* the write.
TaskWrite(j, o) ==
    /\ taskPc[j] = "blocking"
    /\ EntryAt(fs, Components(reqWorkdir[j])).kind # "dir" => o = "spawnfail"
    /\ exit' = [exit EXCEPT ![j] = o]
    /\ res' = [res EXCEPT ![j] = JoinResult(o)]
    /\ runs' = Insert(runs, j, MatchRes(JoinResult(o)))
    /\ taskPc' = [taskPc EXCEPT ![j] = "send"]
    /\ UNCHANGED <<tail, sent, fs, execBits, runPc, reqWorkdir, waitVars, sync>>

\* a faulty variant of TaskSend: the task may send once more
TaskSend_Repeats(j) ==
    /\ taskPc[j] \in {"send", "done"}
    /\ sent[j] < 2
    /\ tail' = SendTail(tail, Cardinality(Receivers))
    /\ sent' = [sent EXCEPT ![j] = @ + 1]
    /\ taskPc' = [taskPc EXCEPT ![j] = "done"]
    /\ UNCHANGED <<runs, fs, execBits, runPc, reqWorkdir, exit, res, waitVars, sync>>

\* line 95: the hub is signalled; the result of send is dropped
TaskSend(j) ==
    /\ taskPc[j] = "send"
    /\ tail' = SendTail(tail, Cardinality(Receivers))
    /\ sent' = [sent EXCEPT ![j] = @ + 1]
    /\ taskPc' = [taskPc EXCEPT ![j] = "done"]
    /\ UNCHANGED <<runs, fs, execBits, runPc, reqWorkdir, exit, res, waitVars, sync>>

\* --------------------------------------------------------------- wait-run
\* a faulty variant of WaitReply: whatever is not Success is answered "failed"
WaitReply_NotSuccessIsFailed(st) == IF st = "Success" THEN "ok" ELSE "failed"

\* a faulty variant of WaitReply: whatever is not Fail is answered "ok"
WaitReply_NotFailIsOk(st) == IF st = "Fail" THEN "failed" ELSE "ok"

\* lines 112-116: Ok("ok") / Ok("failed") for a terminal status, "none" to
\* go on to recv
WaitReply(st) ==
    CASE st = "Success" -> "ok"
      [] st = "Fail" -> "failed"
      [] OTHER -> "none"

\* line 102: the receiver is created before the loop
WaitSubscribe(w, id) ==
    /\ wPc[w] = "idle"
    /\ w = WaitsStarted + 1
    /\ RunsStarted + WaitsStarted < MaxRequests
    /\ wId' = [wId EXCEPT ![w] = id]
    /\ wNext' = [wNext EXCEPT ![w] = Subscribe(tail)]
    /\ wSub' = [wSub EXCEPT ![w] = tail]
    /\ wPc' = [wPc EXCEPT ![w] = "read"]
    /\ UNCHANGED <<runs, tail, sent, fs, execBits, runPc, reqWorkdir, taskPc, exit,
                   res, wReads, wRes, sync>>

\* lines 104-116: one registry read; an unknown id is answered with an
\* error, a terminal status with its reply, Running goes on to recv.  The
\* receiver is dropped when the handler returns.
WaitRead(w) ==
    /\ wPc[w] = "read"
    /\ wReads' = [wReads EXCEPT ![w] = @ + 1]
    /\ LET st == Lookup(runs, wId[w])
       IN IF st = "none"
          THEN /\ wRes' = [wRes EXCEPT ![w] = "notfound"]
               /\ wPc' = [wPc EXCEPT ![w] = "done"]
               /\ wNext' = [wNext EXCEPT ![w] = 0]
               /\ wSub' = [wSub EXCEPT ![w] = 0]
          ELSE IF WaitReply(st) # "none"
          THEN /\ wRes' = [wRes EXCEPT ![w] = WaitReply(st)]
               /\ wPc' = [wPc EXCEPT ![w] = "done"]
               /\ wNext' = [wNext EXCEPT ![w] = 0]
               /\ wSub' = [wSub EXCEPT ![w] = 0]
          ELSE /\ wPc' = [wPc EXCEPT ![w] = "recv"]
               /\ UNCHANGED <<wRes, wNext, wSub>>
    /\ UNCHANGED <<runs, tail, sent, fs, execBits, runPc, reqWorkdir, taskPc, exit,
                   res, wId, sync>>

\* line 117: ch.recv().await completes (with a message or a lag notice,
\* both dropped) and the loop starts over
WaitRecv(w) ==
    /\ wPc[w] = "recv"
    /\ RecvReady(wNext[w], tail)
    /\ wNext' = [wNext EXCEPT ![w] = RecvNext(@, tail)]
    /\ wPc' = [wPc EXCEPT ![w] = "read"]
    /\ UNCHANGED <<runs, tail, sent, fs, execBits, runPc, reqWorkdir, taskPc, exit,
                   res, wId, wSub, wReads, wRes, sync>>

Next ==
    \/ \E j \in Jobs, w \in Workdirs : RunStart(j, w)
    \/ \E j \in Jobs : RunInsert(j)
    \/ \E j \in Jobs : RunReturn(j)
    \/ \E j \in Jobs, o \in ChildOutcomes : TaskWrite(j, o)
    \/ \E j \in Jobs : TaskSend(j)
    \/ \E w \in Waiters, id \in Ids : WaitSubscribe(w, id)
    \/ \E w \in Waiters : WaitRead(w)
    \/ \E w \in Waiters : WaitRecv(w)

Spec == Init /\ [][Next]_vars

\* The waiting protocol alone: the run requests that register a job (a valid
\* workdir), whose child ends with code 0 or cannot be spawned.  Rejected
\* requests and the other exit statuses take the same steps as these.
LiveOutcomes == {"exit0", "spawnfail"}

NextLive ==
    \/ \E j \in Jobs : RunStart(j, WdAbs)
    \/ \E j \in Jobs : RunInsert(j)
    \/ \E j \in Jobs : RunReturn(j)
    \/ \E j \in Jobs, o \in LiveOutcomes : TaskWrite(j, o)
    \/ \E j \in Jobs : TaskSend(j)
    \/ \E w \in Waiters, id \in Ids : WaitSubscribe(w, id)
    \/ \E w \in Waiters : WaitRead(w)
    \/ \E w \in Waiters : WaitRecv(w)

\* a step of a handler or task that is under way (no new request arrives)
SystemStep ==
    \/ \E j \in Jobs : RunInsert(j)
    \/ \E j \in Jobs : RunReturn(j)
    \/ \E j \in Jobs, o \in LiveOutcomes : TaskWrite(j, o)
    \/ \E j \in Jobs : TaskSend(j)
    \/ \E w \in Waiters : WaitRead(w)
    \/ \E w \in Waiters : WaitRecv(w)

\* The runtime keeps running the tasks that can take a step, and every child
\* process ends: as long as some handler or task can take a step, one of
\* them does.  (Weak fairness of each task apart implies this.)
Fairness == WF_vars(SystemStep)

FairSpec == Init /\ [][NextLive]_vars /\ Fairness

\* The same with a child process that never ends: the first job's child
\* stays in its blocking wait (lines 62-83, on a thread of the blocking
\* pool), every other task and handler is run as before.
HungJob == CHOOSE j \in Jobs : \A k \in Jobs : j <= k

NextHung ==
    \/ \E j \in Jobs : RunStart(j, WdAbs)
    \/ \E j \in Jobs : RunInsert(j)
    \/ \E j \in Jobs : RunReturn(j)
    \/ \E j \in Jobs \ {HungJob}, o \in LiveOutcomes : TaskWrite(j, o)
    \/ \E j \in Jobs : TaskSend(j)
    \/ \E w \in Waiters, id \in Ids : WaitSubscribe(w, id)
    \/ \E w \in Waiters : WaitRead(w)
    \/ \E w \in Waiters : WaitRecv(w)

SystemStepHung ==
    \/ \E j \in Jobs : RunInsert(j)
    \/ \E j \in Jobs : RunReturn(j)
    \/ \E j \in Jobs \ {HungJob}, o \in LiveOutcomes : TaskWrite(j, o)
    \/ \E j \in Jobs : TaskSend(j)
    \/ \E w \in Waiters : WaitRead(w)
    \/ \E w \in Waiters : WaitRecv(w)

FairSpecHung == Init /\ [][NextHung]_vars /\ WF_vars(SystemStepHung)

\* ------------------------------------------------------------ offer-files
\* Md5::digest: the 128-bit digest is modelled by an 8-bit one, computed
\* from the bytes alone
RECURSIVE Md5Fold(_, _)
Md5Fold(h, b) ==
    IF b = <<>> THEN h ELSE Md5Fold((h * 31 + Head(b) + 7) % 256, Tail(b))

Md5Digest(b) == Md5Fold(90, b)

HexDigits == <<"0", "1", "2", "3", "4", "5", "6", "7",
               "8", "9", "a", "b", "c", "d", "e", "f">>

\* base16ct::lower::encode_string of the one digest byte
HexLower(n) == <<HexDigits[(n \div 16) + 1], HexDigits[(n % 16) + 1]>>

Fingerprint(b) == HexLower(Md5Digest(b))

\* the hashes a request may carry: the fingerprints of two contents, and a
\* string that is no fingerprint
HashInputs == {Fingerprint(<<>>), Fingerprint(<<0>>), <<"Z">>}

SyncWorkdirs == {WdAbs}

HashMaps == UNION {[S -> HashInputs] : S \in SUBSET Filenames}

\* lines 131-139 for one entry: the read after exists() is unwrapped
OfferPanics(f, wd, name) ==
    LET path == PathJoin(wd, name)
    IN PathExists(f, path) /\ ~ReadOk(f, path)

\* a faulty variant of OfferKeeps: the names whose hash matches are the
\* ones reported
OfferKeeps_Matching(f, wd, name, hash) ==
    LET path == PathJoin(wd, name)
    IN PathExists(f, path) /\ Fingerprint(ReadBytes(f, path)) = hash

\* lines 131-139 for one entry: kept out of the result only when the file
\* exists and the hash of its bytes is the one given
OfferKeeps(f, wd, name, hash) ==
    LET path == PathJoin(wd, name)
    IN ~(PathExists(f, path) /\ Fingerprint(ReadBytes(f, path)) = hash)

\* lines 127-142: the whole handler; the order of the loop is the map's and
\* the result is compared as a set.  A panic ends the handler without a
\* response.
OfferFiles(wd, hashes) ==
    /\ sync' = IF \E n \in DOMAIN hashes : OfferPanics(fs, wd, n)
               THEN [op |-> "offer", workdir |-> wd, hashes |-> hashes,
                     outcome |-> "panic", result |-> {}]
               ELSE [op |-> "offer", workdir |-> wd, hashes |-> hashes,
                     outcome |-> "ok",
                     result |-> {n \in DOMAIN hashes :
                                   OfferKeeps(fs, wd, n, hashes[n])}]
    /\ UNCHANGED <<fs, execBits, jobVars>>

\* the filesystems the server may find: below an existing directory /w, f
\* and g are each absent, a directory or a file
InitialFilesystems ==
    {f \in [FsKeys -> Entries] :
        /\ f[KeyRoot] = DirEntry
        /\ f[KeyW].kind # "dir" => f[KeyWF] = NoEntry /\ f[KeyWG] = NoEntry}

InitSync ==
    /\ runs = <<>>
    /\ tail = 0
    /\ sent = [j \in Jobs |-> 0]
    /\ execBits = {}
    /\ wSub = [w \in Waiters |-> 0]
    /\ fs \in InitialFilesystems
    /\ runPc = [j \in Jobs |-> "idle"]
    /\ reqWorkdir = [j \in Jobs |-> <<>>]
    /\ taskPc = [j \in Jobs |-> "none"]
    /\ exit = [j \in Jobs |-> "none"]
    /\ res = [j \in Jobs |-> NoRes]
    /\ wPc = [w \in Waiters |-> "idle"]
    /\ wId = [w \in Waiters |-> UnknownId]
    /\ wNext = [w \in Waiters |-> 0]
    /\ wReads = [w \in Waiters |-> 0]
    /\ wRes = [w \in Waiters |-> "none"]
    /\ sync = NoSync

\* ----------------------------------------------------------------- base64
\* base64ct::Base64: the standard alphabet, padded with '='
B64Alphabet ==
    <<"A", "B", "C", "D", "E", "F", "G", "H", "I", "J", "K", "L", "M",
      "N", "O", "P", "Q", "R", "S", "T", "U", "V", "W", "X", "Y", "Z",
      "a", "b", "c", "d", "e", "f", "g", "h", "i", "j", "k", "l", "m",
      "n", "o", "p", "q", "r", "s", "t", "u", "v", "w", "x", "y", "z",
      "0", "1", "2", "3", "4", "5", "6", "7", "8", "9", "+", "/">>

B64Char(v) == B64Alphabet[v + 1]

IsB64Char(c) == \E i \in 1..Len(B64Alphabet) : B64Alphabet[i] = c

\* the six bits of a character; the padding character counts as zero bits
B64Value(c) ==
    IF IsB64Char(c)
    THEN (CHOOSE i \in 1..Len(B64Alphabet) : B64Alphabet[i] = c) - 1
    ELSE 0

\* Base64::encode_string: three bytes give four characters, a last group of
\* one or two bytes is padded
RECURSIVE Base64Encode(_)
Base64Encode(b) ==
    IF Len(b) = 0 THEN <<>>
    ELSE IF Len(b) = 1
    THEN <<B64Char(b[1] \div 4), B64Char((b[1] % 4) * 16), "=", "=">>
    ELSE IF Len(b) = 2
    THEN <<B64Char(b[1] \div 4),
           B64Char((b[1] % 4) * 16 + (b[2] \div 16)),
           B64Char((b[2] % 16) * 4), "=">>
    ELSE <<B64Char(b[1] \div 4),
           B64Char((b[1] % 4) * 16 + (b[2] \div 16)),
           B64Char((b[2] % 16) * 4 + (b[3] \div 64)),
           B64Char(b[3] % 64)>>
         \o Base64Encode(SubSeq(b, 4, Len(b)))

\* the padding characters at the end of a string (two at most)
PadCount(s) ==
    IF Len(s) >= 2 /\ s[Len(s)] = "=" /\ s[Len(s) - 1] = "=" THEN 2
    ELSE IF Len(s) >= 1 /\ s[Len(s)] = "=" THEN 1
    ELSE 0

\* the three bytes of each group of four characters
RECURSIVE Base64DecodeGroups(_)
Base64DecodeGroups(s) ==
    IF Len(s) < 4 THEN <<>>
    ELSE <<B64Value(s[1]) * 4 + (B64Value(s[2]) \div 16),
           (B64Value(s[2]) % 16) * 16 + (B64Value(s[3]) \div 4),
           (B64Value(s[3]) % 4) * 64 + B64Value(s[4])>>
         \o Base64DecodeGroups(SubSeq(s, 5, Len(s)))

\* Base64::decode_vec, the bytes of a string that decodes
Base64DecodeBytes(s) ==
    LET raw == Base64DecodeGroups(s)
    IN SubSeq(raw, 1, Len(raw) - PadCount(s))

\* Base64::decode_vec succeeds: whole groups, characters of the alphabet
\* before the padding, and the canonical encoding of the bytes (the bits
\* left over in the last group are zero)
Base64DecodeOk(s) ==
    /\ Len(s) % 4 = 0
    /\ \A i \in 1..(Len(s) - PadCount(s)) : IsB64Char(s[i])
    /\ Base64Encode(Base64DecodeBytes(s)) = s

\* ------------------------------------------------------------- send-files
\* the payloads a request may carry: the encodings of two contents and a
\* string whose last group has bits left over
DataNotCanonical == <<"A", "B", "=", "=">>

DataInputs == {Base64Encode(<<>>), Base64Encode(<<0>>), DataNotCanonical}

\* line 162 for each of these payloads: whether decode_vec succeeds, and the
\* bytes it gives
Decoded ==
    [d \in DataInputs |->
        IF Base64DecodeOk(d)
        THEN [ok |-> TRUE, bytes |-> Base64DecodeBytes(d)]
        ELSE [ok |-> FALSE, bytes |-> <<>>]]

\* FileInfo { data, executable }
FileInfos ==
    {[data |-> Base64Encode(<<>>), executable |-> FALSE],
     [data |-> Base64Encode(<<0>>), executable |-> TRUE],
     [data |-> DataNotCanonical, executable |-> FALSE]}

SendNames == {NameF, NameG}

FileMaps == UNION {[S -> FileInfos] : S \in SUBSET SendNames}

\* the orders in which the loop may visit the entries of the map
Orders(S) ==
    {o \in [1..Cardinality(S) -> S] : \A n \in S : \E i \in DOMAIN o : o[i] = n}

\* the requests with the order in which each is served
SendRequests ==
    UNION {{[files |-> m, order |-> o] : o \in Orders(DOMAIN m)} : m \in FileMaps}

\* Path::parent of a path, by components
Parent(key) == SubSeq(key, 1, Len(key) - 1)

\* std::fs::write succeeds: the parent is a directory and the path names
\* no directory
WriteOk(f, path) ==
    LET key == Components(path)
    IN /\ key \in DOMAIN f
       /\ key # <<>>
       /\ ~EndsWith(path, "/")
       /\ EntryAt(f, Parent(key)).kind = "dir"
       /\ EntryAt(f, key).kind # "dir"

\* a faulty variant of WriteFile: the bytes are appended to those of a file
\* that is there
WriteFile_Appends(f, path, b) ==
    [f EXCEPT ![Components(path)] = FileEntry(EntryAt(f, Components(path)).bytes \o b)]

\* std::fs::write: the file is created or truncated and gets the bytes
WriteFile(f, path, b) == [f EXCEPT ![Components(path)] = FileEntry(b)]

\* lines 158-166: the loop over the entries in the given order: the parent
\* directories are created best-effort, the payload is decoded, the file is
\* written and made executable; parent(), decode_vec and write are
\* unwrapped, so the first failure ends the handler there
RECURSIVE SendLoop(_, _, _, _, _)
SendLoop(f, x, wd, files, order) ==
    IF order = <<>> THEN [fs |-> f, exec |-> x, outcome |-> "ok"]
    ELSE LET name == Head(order)
             info == files[name]
             path == PathJoin(wd, name)
             key == Components(path)
             f1 == IF key = <<>> THEN f ELSE CreateDirAll(f, Parent(key))
         IN IF key = <<>> \/ ~Decoded[info.data].ok \/ ~WriteOk(f1, path)
            THEN [fs |-> f1, exec |-> x, outcome |-> "panic"]
            ELSE SendLoop(WriteFile(f1, path, Decoded[info.data].bytes),
                          IF info.executable THEN x \cup {key} ELSE x,
                          wd, files, Tail(order))

\* a faulty variant of SendFiles: the hub is signalled when the files are
\* written
SendFiles_Signals(wd, files, order) ==
    LET r == SendLoop(fs, execBits, wd, files, order)
    IN /\ fs' = r.fs
       /\ execBits' = r.exec
       /\ sync' = [op |-> "send", workdir |-> wd, files |-> files,
                   outcome |-> r.outcome]
       /\ tail' = SendTail(tail, Cardinality(Receivers))
       /\ UNCHANGED <<runs, sent, runPc, reqWorkdir, taskPc, exit, res,
                      wPc, wId, wNext, wSub, wReads, wRes>>

\* lines 157-168: the whole handler.  A panic ends the handler without a
\* response; the files written before it stay.
SendFiles(wd, files, order) ==
    LET r == SendLoop(fs, execBits, wd, files, order)
    IN /\ fs' = r.fs
       /\ execBits' = r.exec
       /\ sync' = [op |-> "send", workdir |-> wd, files |-> files,
                   outcome |-> r.outcome]
       /\ UNCHANGED jobVars

\* --------------------------------------------------------------- get-file
GetPaths == {NameF, NameG}

\* lines 176-181: the read is unwrapped
GetFile(wd, path) ==
    LET p == PathJoin(wd, path)
    IN /\ sync' = IF ReadOk(fs, p)
                  THEN [op |-> "get", workdir |-> wd, path |-> path,
                        outcome |-> "ok",
                        payload |-> Base64Encode(ReadBytes(fs, p))]
                  ELSE [op |-> "get", workdir |-> wd, path |-> path,
                        outcome |-> "panic", payload |-> <<>>]
       /\ UNCHANGED <<fs, execBits, jobVars>>

NextSync ==
    \/ \E wd \in SyncWorkdirs, h \in HashMaps : OfferFiles(wd, h)
    \/ \E wd \in SyncWorkdirs, rq \in SendRequests :
          SendFiles(wd, rq.files, rq.order)
    \/ \E wd \in SyncWorkdirs, path \in GetPaths : GetFile(wd, path)

SpecSync == InitSync /\ [][NextSync]_vars

\* ------------------------------------------------------- all the handlers
\* The routes of lines 198-204 served together, from the empty filesystem:
\* the run and wait-run requests of NextLive, one fewer than MaxRequests,
\* and file-sync requests for the one file f.
FrameRequests == MaxRequests - 1

FrameHashMaps == {h \in HashMaps : DOMAIN h = {NameF} /\ h[NameF] = Fingerprint(<<0>>)}

FrameSendRequests == {rq \in SendRequests : DOMAIN rq.files = {NameF}}

NextFrame ==
    \/ \E j \in Jobs :
          RunsStarted + WaitsStarted < FrameRequests /\ RunStart(j, WdAbs)
    \/ \E j \in Jobs : RunInsert(j)
    \/ \E j \in Jobs : RunReturn(j)
    \/ \E j \in Jobs, o \in LiveOutcomes : TaskWrite(j, o)
    \/ \E j \in Jobs : TaskSend(j)
    \/ \E w \in Waiters, id \in Ids :
          RunsStarted + WaitsStarted < FrameRequests /\ WaitSubscribe(w, id)
    \/ \E w \in Waiters : WaitRead(w)
    \/ \E w \in Waiters : WaitRecv(w)
    \/ \E wd \in SyncWorkdirs, h \in FrameHashMaps : OfferFiles(wd, h)
    \/ \E wd \in SyncWorkdirs, rq \in FrameSendRequests :
          SendFiles(wd, rq.files, rq.order)
    \/ \E wd \in SyncWorkdirs : GetFile(wd, NameF)

SpecFrame == Init /\ [][NextFrame]_vars

\* ----------------------------------------------------------------- typing
TypeOK ==
    /\ DOMAIN runs \subseteq Jobs
    /\ \A j \in DOMAIN runs : runs[j] \in Statuses
    /\ tail \in 0..MaxRequests
    /\ fs \in [FsKeys -> Entries]
    /\ runPc \in [Jobs -> {"idle", "rejected", "insert", "return", "done"}]
    /\ reqWorkdir \in [Jobs -> Workdirs]
    /\ taskPc \in [Jobs -> {"none", "blocking", "send", "done"}]
    /\ exit \in [Jobs -> ChildOutcomes \cup {"none"}]
    /\ wPc \in [Waiters -> {"idle", "read", "recv", "done"}]
    /\ wId \in [Waiters -> Ids]
    /\ wNext \in [Waiters -> 0..MaxRequests]
    /\ wSub \in [Waiters -> 0..MaxRequests]
    /\ sent \in [Jobs -> 0..1]
    /\ execBits \subseteq FsKeys
    /\ wReads \in [Waiters -> 0..(MaxRequests + 1)]
    /\ wRes \in [Waiters -> {"none", "ok", "failed", "notfound"}]

\* ----------------------------------------------------------------- claims
\* the terminal status of job j has been written
Written(j) == taskPc[j] \in {"send", "done"}

\* wait-run request w was for id and has been answered with a status
Answered(w, id) ==
    wPc[w] = "done" /\ wId[w] = id /\ wRes[w] \in {"ok", "failed"}

FailureOutcomes == {"nonzero", "signal", "spawnfail"}

\* C1: a job whose child could not be spawned, exited with a nonzero code or
\* was killed by a signal gets the terminal status Fail, and every wait-run
\* on it answers "failed".
C1_FailureIsFailed ==
    \A j \in Jobs :
        (Written(j) /\ exit[j] \in FailureOutcomes) =>
            /\ Lookup(runs, j) = "Fail"
            /\ \A w \in Waiters : Answered(w, j) => wRes[w] = "failed"

\* C2: a job whose child was spawned and exited with code 0 gets the
\* terminal status Success, and every wait-run on it that is answered with a
\* status answers "ok".
C2_ExitZeroSucceeds ==
    \A j \in Jobs :
        (Written(j) /\ exit[j] = "exit0") =>
            /\ Lookup(runs, j) = "Success"
            /\ \A w \in Waiters : Answered(w, j) => wRes[w] = "ok"

C2_Witness ==
    \E j \in Jobs, w \in Waiters :
        /\ exit[j] = "exit0"
        /\ taskPc[j] = "done"
        /\ Answered(w, j)
        /\ wRes[w] = "ok"

\* C3: no lost wakeup: under weak fairness of every task, a wait-run that
\* has subscribed for a registered job is eventually answered with a status,
\* whatever the interleaving with the job's write and send and with the
\* completions of other jobs.
C3_NoLostWakeup ==
    \A w \in Waiters :
        (wPc[w] \in {"read", "recv"} /\ wId[w] \in DOMAIN runs)
            ~> (wPc[w] = "done" /\ wRes[w] \in {"ok", "failed"})

\* C3 as a property of states: a wait-run that is suspended on the hub with
\* nothing to receive is waiting for a job whose signal is still to be sent
NoStuckWaiter ==
    \A w \in Waiters :
        (wPc[w] = "recv" /\ ~RecvReady(wNext[w], tail)) =>
            /\ wId[w] \in Jobs
            /\ taskPc[wId[w]] \in {"blocking", "send"}

\* a wait-run that suspended, was woken more than once (by another job's
\* signal or by a lag notice) and was answered
C3_Witness ==
    \E w \in Waiters : wPc[w] = "done" /\ wReads[w] >= 3 /\ wRes[w] = "ok"

\* C4: a job's entry is created as Running, the task's write puts a terminal
\* value there, and no step changes an entry that is terminal (nor removes
\* an entry, nor creates one with another value than Running).
C4_StatusMonotonic ==
    /\ [](\A j \in Jobs : Written(j) => Lookup(runs, j) \in Terminal)
    /\ [][\A j \in Jobs :
            /\ Lookup(runs, j) = "none" => Lookup(runs', j) \in {"none", "Running"}
            /\ Lookup(runs, j) = "Running" => Lookup(runs', j) \in Statuses
            /\ Lookup(runs, j) \in Terminal => Lookup(runs', j) = Lookup(runs, j)
         ]_vars

\* a job is terminal and finished while a later job has been registered
C4_Witness ==
    \E j, k \in Jobs :
        /\ j # k
        /\ taskPc[j] = "done"
        /\ Lookup(runs, j) \in Terminal
        /\ Lookup(runs, k) = "Running"

\* C5: a wait-run whose id is not in the registry at its first read is
\* answered not-found by that read, so without having suspended on the
\* hub, and the step changes neither the registry nor the hub.
C5_UnknownIdNotFound ==
    /\ [](\A w \in Waiters : wRes[w] = "notfound" => wReads[w] = 1)
    /\ [][\A w \in Waiters :
            (/\ wPc[w] = "read"
             /\ wReads[w] = 0
             /\ wReads'[w] = 1
             /\ wId[w] \notin DOMAIN runs)
            => /\ wPc'[w] = "done"
               /\ wRes'[w] = "notfound"
               /\ runs' = runs
               /\ tail' = tail
         ]_vars

C5_Witness ==
    \E w \in Waiters : wPc[w] = "done" /\ wRes[w] = "notfound" /\ wReads[w] = 1

\* C6: a run request whose workdir does not start with '/' or contains '~'
\* is answered with an error and has no effect: the step that answers it
\* changes neither the registry nor the filesystem nor the hub and spawns
\* no task, and the request never gets an entry, a child or a signal.
C6_InvalidWorkdirNoEffect ==
    /\ [](\A j \in Jobs :
            (/\ runPc[j] # "idle"
             /\ \/ Len(reqWorkdir[j]) = 0
                \/ reqWorkdir[j][1] # "/"
                \/ \E i \in 1..Len(reqWorkdir[j]) : reqWorkdir[j][i] = "~")
            => /\ RunResponse(j) = "Err"
               /\ j \notin DOMAIN runs
               /\ taskPc[j] = "none"
               /\ exit[j] = "none")
    /\ [][\A j \in Jobs :
            (runPc[j] = "idle" /\ runPc'[j] = "rejected")
            => UNCHANGED <<runs, fs, tail, taskPc, exit>>
         ]_vars

\* an absolute workdir that contains '~' has been rejected
C6_Witness ==
    \E j \in Jobs : runPc[j] = "rejected" /\ reqWorkdir[j] = WdAbsTilde

\* C7: once run has returned the id, the id is in the registry (Running or
\* terminal), and a wait-run that reads the registry after that return is
\* never answered not-found.
C7_ReturnedIdIsRegistered ==
    /\ [](\A j \in Jobs : runPc[j] = "done" => Lookup(runs, j) \in Statuses)
    /\ [][\A w \in Waiters :
            (/\ wId'[w] \in Jobs
             /\ runPc[wId'[w]] = "done"
             /\ wRes[w] = "none")
            => wRes'[w] # "notfound"
         ]_vars

\* run has returned the id while the job is still Running, and a wait-run
\* for it has read the registry and suspended
C7_Witness ==
    \E j \in Jobs, w \in Waiters :
        /\ runPc[j] = "done"
        /\ Lookup(runs, j) = "Running"
        /\ wId[w] = j
        /\ wPc[w] = "recv"

\* C8: a run request with a valid workdir is answered with the id, and the
\* failures that follow (workdir not created, spawn failure, nonzero exit)
\* show up as the job's terminal status Fail and never as an error answer
\* of the run request.
C8_FailuresOnlyInStatus ==
    \A j \in Jobs :
        (runPc[j] # "idle" /\ ~InvalidWorkdir(reqWorkdir[j])) =>
            /\ RunResponse(j) # "Err"
            /\ (Written(j) /\ exit[j] \in FailureOutcomes)
                   => Lookup(runs, j) = "Fail"

\* the part of C8 about the answer of run alone
RunAnswerIgnoresOutcome ==
    \A j \in Jobs :
        (runPc[j] # "idle" /\ ~InvalidWorkdir(reqWorkdir[j])) =>
            /\ RunResponse(j) # "Err"
            /\ runPc[j] \in {"insert", "return", "done"}

\* C9: the wait-run requests for one id that are answered with a status are
\* all answered with the same one.
C9_WaitersAgree ==
    \A w1, w2 \in Waiters :
        \A j \in Jobs :
            (Answered(w1, j) /\ Answered(w2, j)) => wRes[w1] = wRes[w2]

\* two wait-run requests for one job were answered, one on its first read
\* and one after having suspended
C9_Witness ==
    \E w1, w2 \in Waiters :
        \E j \in Jobs :
            /\ Answered(w1, j)
            /\ Answered(w2, j)
            /\ wReads[w1] = 1
            /\ wReads[w2] >= 2

\* the names the claim wants back: those with no regular file at
\* workdir/name, or one whose fingerprint is not the expected one
WantedNames(f, wd, hashes) ==
    {n \in DOMAIN hashes :
        ~(/\ ReadOk(f, PathJoin(wd, n))
          /\ Fingerprint(ReadBytes(f, PathJoin(wd, n))) = hashes[n])}

\* C10: offer-files answers with exactly the requested names whose file is
\* missing or has another fingerprint than the expected one, and leaves the
\* filesystem as it was.
C10_DiffIsExact ==
    /\ [](sync.op = "offer" =>
            /\ sync.outcome = "ok"
            /\ sync.result = WantedNames(fs, sync.workdir, sync.hashes))
    /\ [][sync' # sync => fs' = fs]_vars

\* offer-files is exact whenever it answers
DiffIsExactWhenAnswered ==
    (sync.op = "offer" /\ sync.outcome = "ok") =>
        sync.result = WantedNames(fs, sync.workdir, sync.hashes)

\* offer-files answers unless a requested path is a directory
DiffAnswersOnFiles ==
    (sync.op = "offer" /\ sync.outcome = "panic") =>
        \E n \in DOMAIN sync.hashes :
            EntryAt(fs, Components(PathJoin(sync.workdir, n))).kind = "dir"

\* C14: the terminal status of a job is in the registry before the job's
\* signal is sent: the step that sends finds the entry terminal, in every
\* state where the signal has been sent the entry is terminal, and a
\* wait-run for the job that reads after the signal is answered with a status.
C14_WriteBeforeSend ==
    /\ [](\A j \in Jobs : sent[j] > 0 => Lookup(runs, j) \in Terminal)
    /\ [][\A j \in Jobs :
            sent'[j] > sent[j] => Lookup(runs, j) \in Terminal
         ]_vars
    /\ [][\A w \in Waiters :
            (/\ wPc[w] = "read"
             /\ wPc'[w] # "read"
             /\ wId[w] \in Jobs
             /\ sent[wId[w]] > 0)
            => wRes'[w] \in {"ok", "failed"}
         ]_vars

\* a wait-run that had suspended was answered after its job's signal
C14_Witness ==
    \E w \in Waiters :
        /\ wPc[w] = "done"
        /\ wId[w] \in Jobs
        /\ sent[wId[w]] = 1
        /\ wReads[w] = 2
        /\ wRes[w] = "ok"

RECURSIVE SumSent(_)
SumSent(S) ==
    IF S = {} THEN 0
    ELSE LET j == CHOOSE x \in S : TRUE IN sent[j] + SumSent(S \ {j})

\* calls of send made so far
TotalSent == SumSent(Jobs)

\* C16 as stated: the number of calls of send equals the number of jobs
\* whose status is terminal or whose terminal write has been made and whose
\* send is the next step, and no send is made for a job that is Running.
C16_SendsEqualTerminalJobs ==
    /\ TotalSent = Cardinality({j \in Jobs :
                       \/ Lookup(runs, j) \in Terminal
                       \/ (Written(j) /\ taskPc[j] = "send")})
    /\ \A j \in Jobs : Lookup(runs, j) = "Running" => sent[j] = 0

\* C16 as amended: the number of calls of send equals the number of jobs
\* whose status is terminal less those whose send is the next step; each
\* job has one call once its task is over, and none before its write.
C16_OneSendPerCompletedJob ==
    /\ TotalSent = Cardinality({j \in Jobs : Lookup(runs, j) \in Terminal})
                     - Cardinality({j \in Jobs : taskPc[j] = "send"})
    /\ \A j \in Jobs :
          /\ sent[j] = (IF Lookup(runs, j) \in Terminal /\ taskPc[j] # "send"
                        THEN 1 ELSE 0)
          /\ Lookup(runs, j) \in {"none", "Running"} => sent[j] = 0

\* one job has sent its signal, another has written and not yet sent
C16_Witness ==
    \E j, k \in Jobs :
        /\ sent[j] = 1
        /\ taskPc[k] = "send"
        /\ Lookup(runs, k) \in Terminal

\* C18: a wait-run does not poll: it reaches a read only from subscribing or
\* from a recv that consumed a signal sent after it subscribed, and at each
\* read the reads it made before are no more than the signals it consumed,
\* themselves no more than the signals sent since it subscribed.
C18_NoBusyPoll ==
    /\ [][\A w \in Waiters :
            (wPc'[w] = "read" /\ wPc[w] # "read")
            => \/ wPc[w] = "idle" /\ wReads'[w] = 0
               \/ /\ wPc[w] = "recv"
                  /\ wNext[w] < tail
                  /\ wNext'[w] > wNext[w]
                  /\ wNext'[w] <= tail
         ]_vars
    /\ [][\A w \in Waiters :
            wReads'[w] = wReads[w] + 1
            => /\ wReads[w] <= wNext[w] - wSub[w]
               /\ wNext[w] <= tail
               /\ wReads'[w] <= 1 + (tail - wSub[w])
         ]_vars

\* a wait-run read three times: the signals of two jobs were sent after it
\* subscribed
C18_Witness ==
    \E w \in Waiters : wReads[w] = 3 /\ wPc[w] = "done" /\ wId[w] \in Jobs

\* C17: a job whose child never ends blocks no other job: with the first
\* job's child hung and the other tasks run fairly, a later run request
\* that passed validation registers its job and returns its id, the job
\* reaches a terminal status, and a wait-run subscribed for it is answered
\* with that status; the hung job stays Running.
C17_HungJobBlocksNoOther ==
    /\ \A j \in Jobs \ {HungJob} :
          (runPc[j] = "insert")
              ~> (runPc[j] = "done" /\ Lookup(runs, j) \in Terminal)
    /\ \A w \in Waiters :
          (/\ wPc[w] \in {"read", "recv"}
           /\ wId[w] \in DOMAIN runs
           /\ wId[w] # HungJob)
              ~> (wPc[w] = "done" /\ wRes[w] \in {"ok", "failed"})
    /\ [](taskPc[HungJob] \in {"none", "blocking"})

\* the first job's child is running, a later job is over and a wait-run for
\* it was answered
C17_Witness ==
    \E j \in Jobs \ {HungJob}, w \in Waiters :
        /\ taskPc[HungJob] = "blocking"
        /\ Lookup(runs, HungJob) = "Running"
        /\ runPc[j] = "done"
        /\ taskPc[j] = "done"
        /\ Answered(w, j)

\* the filesystem key of a name of a file-sync request
SyncKey(wd, name) == Components(PathJoin(wd, name))

\* the step serves a send-files, a get-file, an offer-files request
SendStep == sync'.op = "send" /\ (sync' # sync \/ fs' # fs \/ execBits' # execBits)
GetStep == sync'.op = "get" /\ sync' # sync
OfferStep == sync'.op = "offer" /\ sync' # sync

\* C11: round trip: a get-file that follows a send-files which completed
\* and carried file f with a well-formed payload answers with a payload that
\* decodes to the bytes pushed, whatever was at f before; and every payload
\* get-file answers with decodes to the bytes of the file.
C11_PushPullRoundTrip ==
    /\ [][(/\ sync.op = "send"
           /\ sync.outcome = "ok"
           /\ GetStep
           /\ sync'.workdir = sync.workdir
           /\ sync'.path \in DOMAIN sync.files
           /\ Base64DecodeOk(sync.files[sync'.path].data))
          => /\ sync'.outcome = "ok"
             /\ Base64DecodeOk(sync'.payload)
             /\ Base64DecodeBytes(sync'.payload)
                  = Base64DecodeBytes(sync.files[sync'.path].data)
         ]_vars
    /\ [][(GetStep /\ sync'.outcome = "ok")
          => /\ Base64DecodeOk(sync'.payload)
             /\ Base64DecodeBytes(sync'.payload)
                  = ReadBytes(fs, PathJoin(sync'.workdir, sync'.path))
         ]_vars

\* a get-file answered with the byte that a send-files request wrote over
\* other contents or where no file was (only send-files sets the mode)
C11_Witness ==
    /\ sync.op = "get"
    /\ sync.outcome = "ok"
    /\ SyncKey(sync.workdir, sync.path) \in execBits
    /\ Base64DecodeBytes(sync.payload) = <<0>>

\* C12: after a send-files request with several files, every file of the
\* request with a well-formed payload and a path that can be written holds
\* its decoded bytes, or the request was answered with an error.
C12_SiblingsWrittenOrError ==
    sync.op = "send" =>
        \/ sync.outcome = "error"
        \/ \A n \in DOMAIN sync.files :
              (/\ Base64DecodeOk(sync.files[n].data)
               /\ WriteOk(fs, PathJoin(sync.workdir, n)))
              => EntryAt(fs, SyncKey(sync.workdir, n))
                   = FileEntry(Base64DecodeBytes(sync.files[n].data))

\* send-files changes nothing but the filesystem and the modes
PushLeavesRegistryAlone == [][SendStep => UNCHANGED jobVars]_vars

\* C13: a get-file for a path where nothing is is answered with a not-found
\* error.
C13_PullMissingIsNotFound ==
    (/\ sync.op = "get"
     /\ ~PathExists(fs, PathJoin(sync.workdir, sync.path)))
        => sync.outcome = "notfound"

\* the other half of C13: get-file changes neither the filesystem nor the
\* registry
PullLeavesStateAlone == [][GetStep => UNCHANGED <<fs, execBits, jobVars>>]_vars

\* C20: convergence: an offer-files that follows a send-files which
\* completed, asking for pushed files with the fingerprints of the pushed
\* bytes, is answered with the empty set; whatever it asks, no pushed file
\* whose fingerprint it gives is in the answer; and send-files leaves the
\* files it does not name as they were, so the files an earlier offer-files
\* did not report stay unreported.
C20_PushThenDiffIsEmpty ==
    /\ [][(/\ sync.op = "send"
           /\ sync.outcome = "ok"
           /\ OfferStep
           /\ sync'.workdir = sync.workdir
           /\ DOMAIN sync'.hashes \subseteq DOMAIN sync.files
           /\ \A n \in DOMAIN sync'.hashes :
                 sync'.hashes[n]
                   = Fingerprint(Base64DecodeBytes(sync.files[n].data)))
          => (sync'.outcome = "ok" /\ sync'.result = {})
         ]_vars
    /\ [][(/\ sync.op = "send"
           /\ sync.outcome = "ok"
           /\ OfferStep
           /\ sync'.workdir = sync.workdir
           /\ sync'.outcome = "ok")
          => \A n \in DOMAIN sync'.hashes \cap DOMAIN sync.files :
                sync'.hashes[n]
                   = Fingerprint(Base64DecodeBytes(sync.files[n].data))
                => n \notin sync'.result
         ]_vars
    /\ [][SendStep
          => \A n \in SendNames \ DOMAIN sync'.files :
                EntryAt(fs', SyncKey(sync'.workdir, n))
                  = EntryAt(fs, SyncKey(sync'.workdir, n))
         ]_vars

\* an offer-files for a file that send-files wrote, with the fingerprint of
\* the pushed byte, answered with the empty set
C20_Witness ==
    /\ sync.op = "offer"
    /\ sync.outcome = "ok"
    /\ sync.result = {}
    /\ \E n \in DOMAIN sync.hashes :
          /\ SyncKey(sync.workdir, n) \in execBits
          /\ sync.hashes[n] = Fingerprint(<<0>>)

\* C19: frame: a file-sync step (offer-files, send-files, get-file) leaves
\* the registry, the hub and every handler and task of run and wait-run as
\* they are, so it sends no signal; a step of run or wait-run leaves the
\* file-sync state, the modes and every regular file as they are, and
\* changes the filesystem only by run's creation of the workdir.
C19_FileSyncAndJobsAreSeparate ==
    /\ [][(sync' # sync \/ SendStep) => UNCHANGED jobVars]_vars
    /\ [][(jobVars' # jobVars)
          => /\ sync' = sync
             /\ execBits' = execBits
             /\ \A k \in FsKeys :
                   (fs[k].kind = "file" \/ fs'[k].kind = "file") => fs'[k] = fs[k]
             /\ fs' # fs =>
                   \E j \in Jobs :
                      /\ runPc[j] = "idle"
                      /\ runPc'[j] = "insert"
                      /\ fs' = CreateDirAll(fs, Components(reqWorkdir'[j]))
         ]_vars

\* a file was pushed while a job is registered and Running and a wait-run is
\* suspended on the hub, and no signal has been sent
C19_Witness ==
    \E j \in Jobs, w \in Waiters :
        /\ Lookup(runs, j) = "Running"
        /\ wPc[w] = "recv"
        /\ wId[w] = j
        /\ tail = 0
        /\ sync.op = "send"
        /\ sync.outcome = "ok"
        /\ fs[KeyWF] = FileEntry(<<0>>)

====
